---- MODULE Spec2Model ----
(***************************************************************************)
(* SmartSpend: the transaction normalisation and insights aggregation of   *)
(* the Express backend (POST /api/upload-csv, POST /api/insights,          *)
(* computeInsights) and of the Angular frontend (refreshData,              *)
(* onCsvSelected, computeInsights).                                        *)
(*                                                                         *)
(* JavaScript values are tagged records [k, n, s]: k is the type tag, n    *)
(* the numeric value, s the characters of a string or the elements of an   *)
(* array.  A string is a sequence of one-character strings, so that the    *)
(* regular expression replace, parseFloat, Number and string concatenation *)
(* act on characters as they do in the code.  A number is a decimal held   *)
(* in fixed point, as an integer count of 1/Scale; sums are exact (binary  *)
(* floating point rounding is not modelled).                               *)
(***************************************************************************)
EXTENDS Integers, Sequences, FiniteSets, TLC

(* ------------------------------- state -------------------------------- *)

VARIABLES
  endpoint,      \* the route served last: "none", "insights", "upload-csv"
  request,       \* its input: body.transactions, or the parsed file
  repeated,      \* whether that request was served before, unchanged
  status,        \* the HTTP status of its response
  error,         \* the error member of its response ("": none)
  records,       \* upload-csv: the records of the response's transactions
  normalized,    \* insights: the normalized array
  response,      \* insights: the insights of the response
  method,        \* AppComponent: the method run last
  source,        \* what it received: the file's rows, or txData.transactions
  transactions,  \* AppComponent.transactions
  insights,      \* AppComponent.insights
  ACCESS_TOKEN,  \* the backend's stored access token
  pending,       \* the routes whose handler awaits the aggregator or the model
  exchanged,     \* whether a public-token exchange has succeeded
  inflight,      \* AppComponent: the insights responses on their way to it
  scheduled,     \* the delayed refreshes that onSuccess has set and not run
  chatHistory,   \* AppComponent.chatHistory: entries [type, message]
  question,      \* AppComponent.question
  asking,        \* the calls of ask() that await their response
  onboardingStep,       \* AppComponent.onboardingStep
  showOnboarding,       \* AppComponent.showOnboarding
  showConnectionPopup,  \* AppComponent.showConnectionPopup
  completed      \* localStorage: 'smartspend_onboarding_completed' is 'true'


(* ------------------------------ bounds -------------------------------- *)

\* Longest amount cell of an uploaded CSV row that is enumerated in full.
MaxLen == 3
\* Records appended to a base batch of a request to /api/insights.
MaxExtra == 2
\* Insights responses on their way to the component at one time.
MaxInFlight == 2
\* Non-blank questions asked in one chat.
MaxAsks == 2

RECURSIVE Pow10(_)
Pow10(k) == IF k = 0 THEN 1 ELSE 10 * Pow10(k - 1)

\* Fraction digits a number keeps; every enumerated amount cell fits.
FracDigits == MaxLen
Scale == Pow10(FracDigits)

(* --------------------------- JavaScript values ------------------------ *)

Undefined == [k |-> "undefined", n |-> 0, s |-> <<>>]
Null == [k |-> "null", n |-> 0, s |-> <<>>]
NaN == [k |-> "nan", n |-> 0, s |-> <<>>]
Num(x) == [k |-> "num", n |-> x, s |-> <<>>]
Str(cs) == [k |-> "str", n |-> 0, s |-> cs]
Arr(vs) == [k |-> "arr", n |-> 0, s |-> vs]

IsNum(v) == v.k = "num"
IsStr(v) == v.k = "str"
IsArr(v) == v.k = "arr"

\* A JSON object (a mapping of keys to values) is a record of its fields;
\* every other value carries its type tag k.
IsMapping(v) == "k" \notin DOMAIN v

\* Array.isArray(v)
ArrayIsArray(v) == ~IsMapping(v) /\ IsArr(v)

\* ToBoolean: undefined, null, NaN, 0 and "" are falsy; arrays, functions and
\* objects are truthy.
Truthy(v) ==
  CASE v.k \in {"undefined", "null", "nan"} -> FALSE
    [] v.k = "num" -> v.n # 0
    [] v.k = "str" -> v.s # <<>>
    [] v.k \in {"arr", "fn", "obj"} -> TRUE

\* a || b
Or(a, b) == IF Truthy(a) THEN a ELSE b

\* a && b
And(a, b) == IF Truthy(a) THEN b ELSE a

(* ------------------------------ characters ---------------------------- *)

Digits == {"0", "1", "2", "3", "4", "5", "6", "7", "8", "9"}

DigitVal(c) ==
  CASE c = "0" -> 0 [] c = "1" -> 1 [] c = "2" -> 2 [] c = "3" -> 3
    [] c = "4" -> 4 [] c = "5" -> 5 [] c = "6" -> 6 [] c = "7" -> 7
    [] c = "8" -> 8 [] c = "9" -> 9

DigitChar(d) == <<"0", "1", "2", "3", "4", "5", "6", "7", "8", "9">>[d + 1]

\* The number of consecutive digits of cs from position i on.
RECURSIVE DigitRun(_, _)
DigitRun(cs, i) ==
  IF i <= Len(cs) /\ cs[i] \in Digits THEN 1 + DigitRun(cs, i + 1) ELSE 0

\* The value of the digit string cs[i..j] read as a whole number.
RECURSIVE IntDigits(_, _, _)
IntDigits(cs, i, j) ==
  IF j < i THEN 0 ELSE 10 * IntDigits(cs, i, j - 1) + DigitVal(cs[j])

\* The value, in 1/Scale, of the digit string cs[i..j] read as a fraction
\* .d1d2...: digit number p after the point weighs Scale / 10^p.
RECURSIVE FracDigitsVal(_, _, _)
FracDigitsVal(cs, i, j) ==
  IF j < i THEN 0
  ELSE FracDigitsVal(cs, i, j - 1)
       + (IF j - i + 1 <= FracDigits
          THEN DigitVal(cs[j]) * Pow10(FracDigits - (j - i + 1)) ELSE 0)

(* ----------------------- parseFloat and Number ------------------------ *)

\* The scan of a StrDecimalLiteral at the start of cs: the length of the
\* sign, of the integer digits, of the point and of the fraction digits.
ScanFraction(cs, sg, ip, pt) ==
  [sg |-> sg, ip |-> ip, pt |-> pt,
   fp |-> IF pt = 1 THEN DigitRun(cs, sg + ip + 2) ELSE 0]

ScanPoint(cs, sg, ip) ==
  ScanFraction(cs, sg, ip,
               IF sg + ip + 1 <= Len(cs) /\ cs[sg + ip + 1] = "." THEN 1 ELSE 0)

ScanInteger(cs, sg) == ScanPoint(cs, sg, DigitRun(cs, sg + 1))

Scan(cs) == ScanInteger(cs, IF Len(cs) >= 1 /\ cs[1] \in {"-", "+"} THEN 1 ELSE 0)

\* The magnitude, in 1/Scale, of the literal scanned.
Magnitude(cs, sc) ==
  IntDigits(cs, sc.sg + 1, sc.sg + sc.ip) * Scale
  + FracDigitsVal(cs, sc.sg + sc.ip + 2, sc.sg + sc.ip + 1 + sc.fp)

ScannedNumber(cs, sc) ==
  IF sc.ip + sc.fp = 0 THEN NaN
  ELSE IF cs[1] = "-" THEN Num(0 - Magnitude(cs, sc))
  ELSE Num(Magnitude(cs, sc))

\* parseFloat(string): the longest prefix that is a StrDecimalLiteral (an
\* optional sign, digits, an optional point and digits, at least one digit)
\* gives the value, and NaN when there is none.  Exponents, "Infinity" and
\* leading white space need characters the amount cells here never hold
\* after cleaning.
ParseFloat(cs) == ScannedNumber(cs, Scan(cs))

ScannedWhole(cs, sc) ==
  IF sc.ip + sc.fp > 0 /\ sc.sg + sc.ip + sc.pt + sc.fp = Len(cs)
  THEN ScannedNumber(cs, sc)
  ELSE NaN

\* StringToNumber: the whole string must be a numeric literal; "" is 0.
StringToNumber(cs) == IF cs = <<>> THEN Num(0) ELSE ScannedWhole(cs, Scan(cs))

\* Number(v), for the values an amount or a total takes here.
ToNumber(v) ==
  CASE v.k = "undefined" -> NaN
    [] v.k = "null" -> Num(0)
    [] v.k = "nan" -> NaN
    [] v.k = "num" -> v
    [] v.k = "str" -> StringToNumber(v.s)

\* The digits of the whole number x >= 0.
RECURSIVE NatToString(_)
NatToString(x) ==
  IF x < 10 THEN <<DigitChar(x)>>
  ELSE NatToString(x \div 10) \o <<DigitChar(x % 10)>>

\* The fraction digits of f (0 <= f < 10^w, in units of 10^-w), without
\* trailing zeros.
RECURSIVE FracToString(_, _)
FracToString(f, w) ==
  IF f = 0 \/ w = 0 THEN <<>>
  ELSE <<DigitChar(f \div Pow10(w - 1))>> \o FracToString(f % Pow10(w - 1), w - 1)

UnsignedToString(m) ==
  NatToString(m \div Scale)
  \o (IF m % Scale = 0 THEN <<>> ELSE <<".">> \o FracToString(m % Scale, FracDigits))

\* Number::toString of a number held in fixed point.
NumberToString(x) ==
  IF x < 0 THEN <<"-">> \o UnsignedToString(0 - x) ELSE UnsignedToString(x)

(* ------------------- the object used as a map ({}) ------------------- *)

ConstructorKey == <<"c", "o", "n", "s", "t", "r", "u", "c", "t", "o", "r">>
ProtoKey == <<"_", "_", "p", "r", "o", "t", "o", "_", "_">>

\* What a read of a key that is no own property of {} finds on
\* Object.prototype.  Of its members the two below are modelled; the others
\* (toString, valueOf, hasOwnProperty, ...) are functions like constructor.
\* constructor is the built-in function Object, a value of kind "fn" whose
\* s is its source text (Function.prototype.toString); __proto__ is
\* Object.prototype itself, a plain object (kind "obj").
InheritedProperty(key) ==
  IF key = ConstructorKey
  THEN [k |-> "fn", n |-> 0,
        s |-> <<"f", "u", "n", "c", "t", "i", "o", "n", " ", "O", "b", "j", "e", "c",
                "t", "(", ")", " ", "{", " ", "[", "n", "a", "t", "i", "v", "e", " ",
                "c", "o", "d", "e", "]", " ", "}">>]
  ELSE IF key = ProtoKey THEN [k |-> "obj", n |-> 0, s |-> <<>>]
  ELSE Undefined

\* An object is the sequence of its own properties [name, total] in the
\* order they were created.
OwnIndex(obj, key) == {i \in 1..Len(obj) : obj[i].name = key}

\* obj[key]
GetProperty(obj, key) ==
  IF OwnIndex(obj, key) # {}
  THEN obj[CHOOSE i \in OwnIndex(obj, key) : TRUE].total
  ELSE InheritedProperty(key)

\* obj[key] = v.  Assigning a primitive to __proto__ runs the inherited
\* setter, which ignores it: no own property is created.
SetProperty(obj, key, v) ==
  IF key = ProtoKey THEN obj
  ELSE IF OwnIndex(obj, key) # {}
  THEN [obj EXCEPT ![CHOOSE i \in OwnIndex(obj, key) : TRUE].total = v]
  ELSE Append(obj, [name |-> key, total |-> v])

\* ToString of the operand of a string concatenation; a plain object
\* gives "[object Object]" (Object.prototype.toString).
ToStringValue(v) ==
  CASE v.k = "str" -> v.s
    [] v.k = "num" -> NumberToString(v.n)
    [] v.k = "fn" -> v.s
    [] v.k = "obj" -> <<"[", "o", "b", "j", "e", "c", "t", " ", "O", "b", "j", "e", "c",
                        "t", "]">>

\* a + b: numeric addition of two numbers, string concatenation otherwise
\* (a string, a function or an object operand turns + into concatenation).
Plus(a, b) ==
  IF IsNum(a) /\ IsNum(b) THEN Num(a.n + b.n)
  ELSE Str(ToStringValue(a) \o ToStringValue(b))

\* a - b on ToNumber of both operands; NaN when either is NaN.
Minus(a, b) ==
  IF IsNum(ToNumber(a)) /\ IsNum(ToNumber(b))
  THEN Num(ToNumber(a).n - ToNumber(b).n)
  ELSE NaN

\* An array index key: a canonical numeric string ("0", "7", "10", not "07").
\* Keys here are far shorter than the 2^32 - 2 limit.
IsArrayIndex(key) ==
  /\ Len(key) >= 1
  /\ \A i \in 1..Len(key) : key[i] \in Digits
  /\ (Len(key) = 1 \/ key[1] # "0")
  /\ Len(key) <= 9

IndexValue(key) == IntDigits(key, 1, Len(key))

\* The place in es of an entry with the least index key.
LeastIndex(es) ==
  CHOOSE i \in 1..Len(es) :
    \A j \in 1..Len(es) : IndexValue(es[i].name) <= IndexValue(es[j].name)

\* The entry at place m, and the others in their order.
TakeLeast(es, m) ==
  [least |-> es[m],
   rest |-> [i \in 1..(Len(es) - 1) |-> IF i < m THEN es[i] ELSE es[i + 1]]]

\* The entries of es in ascending order of their index keys.
RECURSIVE AscendingEntries(_)
AscendingFrom(split) == <<split.least>> \o AscendingEntries(split.rest)
AscendingEntries(es) ==
  IF es = <<>> THEN <<>> ELSE AscendingFrom(TakeLeast(es, LeastIndex(es)))

\* Object.entries(obj): the array index keys in ascending numeric order
\* first, then the other string keys in the order they were created.
ObjectEntries(obj) ==
  AscendingEntries(SelectSeq(obj, LAMBDA e : IsArrayIndex(e.name)))
  \o SelectSeq(obj, LAMBDA e : ~IsArrayIndex(e.name))

(* ------------------------- Array.prototype.sort ----------------------- *)

OrZero(v) == IF IsNum(v) THEN v.n ELSE 0

\* The comparator (a, b) => b[1] - a[1]; a NaN result counts as +0.
CompareTotals(a, b) == OrZero(Minus(b.total, a.total))

\* Where the pivot goes among arr[left..right-1]: after every element it
\* does not sort before (binary search, as the engine's insertion sort).
RECURSIVE BinarySearch(_, _, _, _)
SearchHalf(arr, pivot, left, right, mid) ==
  IF CompareTotals(pivot, arr[mid]) < 0
  THEN BinarySearch(arr, pivot, left, mid)
  ELSE BinarySearch(arr, pivot, mid + 1, right)
BinarySearch(arr, pivot, left, right) ==
  IF left >= right THEN left
  ELSE SearchHalf(arr, pivot, left, right, left + ((right - left) \div 2))

\* arr with arr[start] moved down to position pos.
MoveTo(arr, start, pos) ==
  [i \in 1..Len(arr) |->
     IF i < pos THEN arr[i]
     ELSE IF i = pos THEN arr[start]
     ELSE IF i <= start THEN arr[i - 1]
     ELSE arr[i]]

\* Binary insertion of arr[start], arr[start+1], ... into the sorted prefix.
RECURSIVE InsertFrom(_, _)
InsertFrom(arr, start) ==
  IF start > Len(arr) THEN arr
  ELSE InsertFrom(MoveTo(arr, start, BinarySearch(arr, arr[start], 1, start)),
                  start + 1)

\* The last index of the run that starts at arr[1]: strictly descending
\* (each element sorts before its predecessor) or else non-descending.
RECURSIVE RunEnd(_, _, _)
RunEnd(arr, descending, idx) ==
  IF idx + 1 <= Len(arr)
     /\ ((CompareTotals(arr[idx + 1], arr[idx]) < 0) = descending)
  THEN RunEnd(arr, descending, idx + 1)
  ELSE idx

\* arr with its first r elements reversed.
ReversePrefix(arr, r) ==
  [i \in 1..Len(arr) |-> IF i <= r THEN arr[r + 1 - i] ELSE arr[i]]

SortRun(arr, descending, r) ==
  InsertFrom(IF descending THEN ReversePrefix(arr, r) ELSE arr, r + 1)

SortFrom(arr, descending) == SortRun(arr, descending, RunEnd(arr, descending, 2))

\* arr.sort(comparator) as Node's engine (V8) sorts an array of fewer than
\* 64 elements: the leading run is found (and reversed when strictly
\* descending), and the rest is inserted by binary insertion.  With a
\* consistent comparator this is the stable sort ECMAScript requires; with
\* an inconsistent one (a NaN difference) it is what this engine returns.
ArraySort(arr) ==
  IF Len(arr) < 2 THEN arr ELSE SortFrom(arr, CompareTotals(arr[2], arr[1]) < 0)

(* ---------------------------- computeInsights ------------------------- *)

Other == <<"O", "t", "h", "e", "r">>

\* .slice(0, 5)
TopN == 5

\* let totalThisMonth = 0
\* A total kept in module scope: it starts from the total answered last.
TotalCarried ==
  IF "totalThisMonth" \in DOMAIN response THEN response.totalThisMonth.n ELSE 0

TotalInit == 0

\* const categoryTotals = {}
\* A map created with its default bucket.
CategoryTotalsSeeded == <<[name |-> <<"O", "t", "h", "e", "r">>, total |-> Num(0)]>>

\* A map kept in module scope: it starts from the categories answered last.
CategoryTotalsKept ==
  IF "topCategories" \in DOMAIN response THEN response.topCategories ELSE <<>>

CategoryTotalsInit == <<>>

\* Math.abs of a number.
\* The amount taken with its sign.
MathAbsDropped(v) == v

MathAbs(v) == Num(IF v.n < 0 THEN 0 - v.n ELSE v.n)

\* const amount = Number(t.amount) || 0
AmountOf(t) == Or(ToNumber(t.amount), Num(0))

\* if (expenseAmount > 0)
\* expenseAmount >= 0
IncludedWithZero(expenseAmount) == expenseAmount.n >= 0

Included(expenseAmount) == expenseAmount.n > 0

\* arr[0]
\* t.category[t.category.length - 1]
LastElement(v) == IF Len(v.s) >= 1 THEN v.s[Len(v.s)] ELSE Undefined

FirstElement(v) == IF Len(v.s) >= 1 THEN v.s[1] ELSE Undefined

\* const cat = (t.category && (Array.isArray(t.category) ? t.category[0]
\*                                                       : t.category)) || 'Other'
CategoryOf(t) ==
  Or(And(t.category, IF IsArr(t.category) THEN FirstElement(t.category) ELSE t.category),
     Str(Other))

\* totalThisMonth += expenseAmount;
\* categoryTotals[cat] = (categoryTotals[cat] || 0) + expenseAmount
Accumulate(acc, expenseAmount, cat) ==
  IF Included(expenseAmount)
  THEN [totalThisMonth |-> acc.totalThisMonth + expenseAmount.n,
        categoryTotals |->
          SetProperty(acc.categoryTotals, cat,
                      Plus(Or(GetProperty(acc.categoryTotals, cat), Num(0)),
                           expenseAmount))]
  ELSE acc

\* One iteration of the loop over the transactions.
\* A loop that takes the total's name at its word and passes over a
\* transaction not dated in the month at hand.
InsightsStepThisMonth(acc, t) ==
  IF IsStr(t.date) /\ Len(t.date.s) >= 7
       /\ SubSeq(t.date.s, 1, 7) = <<"2", "0", "2", "4", "-", "0", "1">>
  THEN Accumulate(acc, MathAbs(AmountOf(t)), CategoryOf(t).s)
  ELSE acc

InsightsStep(acc, t) == Accumulate(acc, MathAbs(AmountOf(t)), CategoryOf(t).s)

RECURSIVE InsightsLoop(_, _)
InsightsLoop(acc, batch) ==
  IF batch = <<>> THEN acc
  ELSE InsightsLoop(InsightsStep(acc, Head(batch)), Tail(batch))

\* .slice(0, n)
Slice(arr, n) == SubSeq(arr, 1, IF Len(arr) < n THEN Len(arr) ELSE n)

Ranked(acc) ==
  [totalThisMonth |-> Num(acc.totalThisMonth),
   topCategories |-> Slice(ArraySort(ObjectEntries(acc.categoryTotals)), TopN)]

\* function computeInsights(transactions)
ComputeInsights(batch) ==
  Ranked(InsightsLoop([totalThisMonth |-> TotalInit,
                       categoryTotals |-> CategoryTotalsInit], batch))

(* --------------------------- string literals -------------------------- *)

FOOD_AND_DRINK ==
  <<"F", "O", "O", "D", "_", "A", "N", "D", "_", "D", "R", "I", "N", "K">>
RESTAURANTS == <<"R", "E", "S", "T", "A", "U", "R", "A", "N", "T", "S">>
TRAVEL == <<"T", "R", "A", "V", "E", "L">>
Seven == <<"7">>
Cafe == <<"C", "a", "f", "e">>
Diner == <<"D", "i", "n", "e", "r">>
Jan05 == <<"2", "0", "2", "4", "-", "0", "1", "-", "0", "5">>
Jan06 == <<"2", "0", "2", "4", "-", "0", "1", "-", "0", "6">>
Jan07 == <<"2", "0", "2", "4", "-", "0", "1", "-", "0", "7">>
NotAvailable == <<"N", "/", "A">>
Twelve == <<"1", "2">>
DollarAmount == <<"$", "1", ",", "2", "3", "4", ".", "5", "6">>
StringZero == <<"0">>

(* --------------------------- POST /api/insights ----------------------- *)

\* A posted record: the fields the handler reads.  Undefined stands for a
\* key that is absent; pfcPrimary is t.personal_finance_category?.primary.
RawRecord(date, datetime, authorized_date, amount, category, pfcPrimary, name, merchant_name) ==
  [date |-> date, datetime |-> datetime, authorized_date |-> authorized_date,
   amount |-> amount, category |-> category, pfcPrimary |-> pfcPrimary,
   name |-> name, merchant_name |-> merchant_name]

\* A transaction object {date, name, amount, category}, as JSON carries it.
Transaction(date, name, amount, category) ==
  RawRecord(date, Undefined, Undefined, amount, category, Undefined, name, Undefined)

\* The mapping without any of the keys the handler reads.
EmptyMapping ==
  RawRecord(Undefined, Undefined, Undefined, Undefined, Undefined, Undefined,
            Undefined, Undefined)

\* t.date, t.amount, ... of an element of the array: a mapping has its
\* fields; a number, a string, a boolean or an array has none of the keys
\* read, and every read of it is undefined.
Properties(t) == IF IsMapping(t) THEN t ELSE EmptyMapping

\* t.date of null (or undefined) throws a TypeError.
ReadThrows(t) == ~IsMapping(t) /\ t.k \in {"null", "undefined"}

\* The object the callback of transactions.map builds from the reads.
NormalizeFields(t) ==
  [date |-> Or(Or(t.date, t.datetime), t.authorized_date),
   amount |-> t.amount,
   category |-> Or(Or(t.category, t.pfcPrimary), Str(Other)),
   name |-> Or(Or(t.name, t.merchant_name), Str(<<>>))]

\* transactions.map(t => ({ date: ..., amount: ..., category: ..., name: ... }))
NormalizePosted(t) == NormalizeFields(Properties(t))

NormalizeAll(batch) ==
  [i \in 1..Len(batch) |-> NormalizePosted(batch[i])]

Responded(batch) ==
  [status |-> 200, error |-> "", normalized |-> batch,
   insights |-> ComputeInsights(batch)]

Failed(code, message) ==
  [status |-> code, error |-> message, normalized |-> <<>>, insights |-> Undefined]

\* if (!transactions) return res.status(400)...
RejectedIfFalsy(body) == ~IsMapping(body) /\ ~Truthy(body)

\* if (!Array.isArray(transactions)) return res.status(400)...
Rejected(body) == ~ArrayIsArray(body)

\* The callback throws on some element, and the catch answers.
MapThrows(batch) == \E i \in 1..Len(batch) : ReadThrows(batch[i])

\* The handler of POST /api/insights on the body's transactions value:
\* the status, the error, the normalized array and the insights of the
\* response.
InsightsHandler(body) ==
  IF Rejected(body) THEN Failed(400, "transactions[] required")
  ELSE IF ~ArrayIsArray(body) \/ MapThrows(body.s)
  THEN Failed(500, "Failed to compute insights")
  ELSE Responded(NormalizeAll(body.s))

(* -------------------------- POST /api/upload-csv ---------------------- *)

\* A parsed CSV row (columns: true): the cells [key, value] in column
\* order, every value a string.
Cell(key, value) == [key |-> key, value |-> value]

\* record.key
Field(record, key) ==
  IF \E i \in 1..Len(record) : record[i].key = key
  THEN record[CHOOSE i \in 1..Len(record) : record[i].key = key].value
  ELSE Undefined

\* record[Object.keys(record)[0]]
FirstColumn(record) == IF record = <<>> THEN Undefined ELSE record[1].value

\* /[^\d.-]/ : the characters the replace removes.
\* /[^\d.]/ : the minus sign removed as well.
RemovedWithMinus(c) == c \notin (Digits \cup {"."})

Removed(c) == c \notin (Digits \cup {".", "-"})

\* .toString().replace(/[^\d.-]/g, '')
Clean(cs) == SelectSeq(cs, LAMBDA c : ~Removed(c))

\* a ?? b
Coalesce(a, b) == IF a \in {Undefined, Null} THEN b ELSE a

\* record.amount ?? record.Amount ?? record.DEBIT ?? record.CREDIT ?? '0'
AmountCellNullish(record) ==
  Coalesce(Coalesce(Coalesce(Coalesce(Field(record, "amount"), Field(record, "Amount")),
                             Field(record, "DEBIT")), Field(record, "CREDIT")),
           Str(StringZero))

\* record.amount || record.Amount || record.DEBIT || record.CREDIT || '0'
AmountCell(record) ==
  Or(Or(Or(Or(Field(record, "amount"), Field(record, "Amount")),
           Field(record, "DEBIT")), Field(record, "CREDIT")), Str(StringZero))

\* The object pushed to records for one row.
NormalizeCsvRow(record) ==
  [date |-> Or(Or(Or(Field(record, "date"), Field(record, "Date")),
                  Field(record, "TRANSACTION_DATE")), FirstColumn(record)),
   name |-> Or(Or(Or(Or(Field(record, "description"), Field(record, "Description")),
                     Field(record, "NAME")), Field(record, "Merchant")), Str(<<>>)),
   amount |-> Or(ParseFloat(Clean(AmountCell(record).s)), Num(0)),
   category |-> Or(Or(Field(record, "category"), Field(record, "Category")), Str(Other))]

\* The handler of POST /api/upload-csv on the parsed rows of the file
\* (Undefined: no file part in the request).
UploadCsvHandler(file) ==
  IF ~IsArr(file) THEN [status |-> 400, error |-> "file is required", records |-> <<>>]
  ELSE [status |-> 200, error |-> "",
        records |-> [i \in 1..Len(file.s) |-> NormalizeCsvRow(file.s[i])]]

\* A transaction object of a JSON response, as the client that parsed it
\* posts it back.
AsPosted(t) == Transaction(t.date, t.name, t.amount, t.category)

(* ----------------------- AppComponent (frontend) ---------------------- *)

\* refreshData: (txData.transactions || []).map((t: any) => ({ ... }))
MapAggregatorRecord(t) ==
  [date |-> t.date,
   name |-> Or(Or(t.name, t.merchant_name), Str(<<"U", "n", "k", "n", "o", "w", "n">>)),
   amount |-> t.amount,
   category |-> Or(Or(t.pfcPrimary,
                      IF IsArr(t.category) THEN FirstElement(t.category)
                      ELSE t.category),
                   Str(Other))]

MapAggregatorRecords(list) == [i \in 1..Len(list) |-> MapAggregatorRecord(list[i])]

\* computeInsights(): body: JSON.stringify({ transactions: this.transactions })
PostedTransactions(list) == Arr([i \in 1..Len(list) |-> AsPosted(list[i])])

(* ------------------------------- inputs ------------------------------- *)

\* All sequences over S of length at most n.
RECURSIVE SeqsUpTo(_, _)
SeqsUpTo(S, n) ==
  IF n = 0 THEN {<<>>}
  ELSE LET shorter == SeqsUpTo(S, n - 1)
       IN shorter \cup {Append(q, x) : q \in {r \in shorter : Len(r) = n - 1}, x \in S}

\* Canonical transactions: a number for amount, a non-empty string for
\* category.  The amounts, in whole units: both signs, zero, two
\* magnitudes.  The labels: an ordinary one, one that is an array index,
\* and two names of Object.prototype members.
CanonicalPosted ==
  {Transaction(Str(Jan05), Str(Cafe), Num(a * Scale), Str(c)) :
     a \in {0 - 1, 0, 1, 2}, c \in {FOOD_AND_DRINK, Seven, ConstructorKey, ProtoKey}}

\* Records as the banking aggregator returns them: a number for amount, a
\* legacy category list (or null), a personal_finance_category (or none).
AggregatorRecords ==
  {RawRecord(Str(Jan05), Undefined, Undefined, Num(a * Scale), c, p, n, m) :
     a \in {1}, c \in {Null, Arr(<<Str(FOOD_AND_DRINK), Str(RESTAURANTS)>>)},
     p \in {Undefined, Str(TRAVEL)},
     n \in {Str(Cafe)}, m \in {Null}}
  \cup {RawRecord(Undefined, Undefined, Str(Jan06), Num(2 * Scale), Str(FOOD_AND_DRINK),
                  Str(TRAVEL), Undefined, Str(Diner)),
        EmptyMapping}

\* The records posted: the canonical ones, the aggregator's, and records
\* a mapping can be and the schema does not promise: the empty mapping,
\* amounts that are strings or null, empty categories.
PostedRecords ==
  CanonicalPosted \cup AggregatorRecords \cup
  {EmptyMapping,
   Transaction(Str(Jan05), Str(Cafe), Str(NotAvailable), Str(FOOD_AND_DRINK)),
   Transaction(Str(Jan05), Str(Cafe), Str(Twelve), Str(FOOD_AND_DRINK)),
   Transaction(Str(Jan05), Str(Cafe), Null, Str(TRAVEL)),
   Transaction(Str(Jan05), Str(Cafe), Num(Scale), Str(<<>>)),
   Transaction(Str(Jan05), Str(Cafe), Num(Scale), Arr(<<>>)),
   Transaction(Undefined, Undefined, Num(Scale), Arr(<<Str(TRAVEL)>>))}

\* The batch of the end-to-end scenario.
ScenarioBatch ==
  <<Transaction(Str(Jan05), Str(Cafe), Num(0 - 45 * Scale), Str(FOOD_AND_DRINK)),
    Transaction(Str(Jan06), Str(Diner), Num(0 - 20 * Scale), Str(FOOD_AND_DRINK)),
    Transaction(Str(Jan07), Str(<<"A", "i", "r", "l", "i", "n", "e">>),
                Num(0 - 100 * Scale), Str(TRAVEL))>>

\* A batch with five categories, two pairs of them with equal totals:
\* TRANSPORTATION, ENTERTAINMENT, GENERAL_MERCHANDISE, LOAN_PAYMENTS and
\* PERSONAL_CARE.
FiveCategoryBatch ==
  <<Transaction(Str(Jan05), Str(Cafe), Num(2 * Scale),
      Str(<<"T", "R", "A", "N", "S", "P", "O", "R", "T", "A", "T", "I", "O", "N">>)),
    Transaction(Str(Jan05), Str(Cafe), Num(0 - Scale),
      Str(<<"E", "N", "T", "E", "R", "T", "A", "I", "N", "M", "E", "N", "T">>)),
    Transaction(Str(Jan06), Str(Cafe), Num(2 * Scale),
      Str(<<"G", "E", "N", "E", "R", "A", "L", "_", "M", "E", "R", "C", "H", "A",
            "N", "D", "I", "S", "E">>)),
    Transaction(Str(Jan06), Str(Cafe), Num(Scale),
      Str(<<"L", "O", "A", "N", "_", "P", "A", "Y", "M", "E", "N", "T", "S">>)),
    Transaction(Str(Jan07), Str(Cafe), Num(0 - 3 * Scale),
      Str(<<"P", "E", "R", "S", "O", "N", "A", "L", "_", "C", "A", "R", "E">>))>>

BaseBatches == {<<>>, ScenarioBatch, FiveCategoryBatch}

\* Elements of a posted array that are no mapping.
NonMappings == {Null, Num(Scale), Str(Cafe)}

\* Arrays with one such element, alone or beside a transaction.
MalformedBatches ==
  {<<x>> : x \in NonMappings}
  \cup {<<ScenarioBatch[3], x>> : x \in NonMappings}
  \cup {<<x, ScenarioBatch[3]>> : x \in NonMappings}

\* One-row files: every amount cell of at most MaxLen characters under
\* one alias, and two longer ones, with and without a category.
AmountRows ==
  {<<Cell("Date", Str(Jan05)), Cell("Description", Str(Cafe)), Cell("Amount", Str(a)),
     Cell("Category", c)>> :
     a \in SeqsUpTo({"1", "2", ".", "-", "$"}, MaxLen) \cup {DollarAmount, NotAvailable},
     c \in {Str(<<>>), Str(FOOD_AND_DRINK)}}

\* A row of the cells that are present (Undefined: the column is absent).
Row(cells) == SelectSeq(cells, LAMBDA cell : cell.value # Undefined)

AliasValues == {Undefined, Str(<<>>), Str(NotAvailable), Str(Seven)}

\* One-row files over the four amount aliases and the two category aliases.
AliasRows ==
  {Row(<<Cell("amount", a), Cell("Amount", b), Cell("DEBIT", c), Cell("CREDIT", d),
         Cell("category", Undefined), Cell("Category", Undefined)>>) :
     a \in AliasValues, b \in AliasValues, c \in AliasValues, d \in AliasValues}
  \cup
  {Row(<<Cell("Merchant", Str(Cafe)), Cell("DEBIT", Str(Twelve)), Cell("category", c),
         Cell("Category", d)>>) :
     c \in {Undefined, Str(<<>>), Str(TRAVEL)},
     d \in {Undefined, Str(<<>>), Str(FOOD_AND_DRINK)}}

\* A header has a column, so a parsed row is never empty.
CsvRows ==
  {r \in AmountRows \cup AliasRows : r # <<>>} \cup {<<Cell("Memo", Str(Cafe))>>}

\* The files: the empty one, those of one row, and those of two rows,
\* which share their header.
CsvFiles ==
  {Arr(<<>>)} \cup {Arr(<<r>>) : r \in CsvRows} \cup
  {Arr(<<<<Cell("date", Str(Jan05)), Cell("description", Str(Cafe)), Cell("amount", a),
           Cell("category", Str(FOOD_AND_DRINK))>>,
         <<Cell("date", Str(Jan06)), Cell("description", Str(Diner)), Cell("amount", b),
           Cell("category", c)>>>>) :
     a \in {Str(NotAvailable), Str(DollarAmount), Str(<<"-", "2">>)},
     b \in {Str(NotAvailable), Str(<<"1", "-", "2">>), Str(<<"$", "2">>)},
     c \in {Str(FOOD_AND_DRINK), Str(<<>>)}}

(* --------------------------- the state machine ------------------------ *)

vars == <<endpoint, request, repeated, status, error, records, normalized, response,
          method, source, transactions, insights, ACCESS_TOKEN, pending, exchanged,
          inflight, scheduled, chatHistory, question, asking, onboardingStep,
          showOnboarding, showConnectionPopup, completed>>

client == <<method, source, transactions, insights>>

answer == <<endpoint, request, repeated, status, error, records, normalized, response>>

tokenSide == <<ACCESS_TOKEN, pending, exchanged>>

chat == <<chatHistory, question, asking>>

onboarding == <<onboardingStep, showOnboarding, showConnectionPopup, completed>>

\* The component's requests under way, its chat and its onboarding.
page == <<inflight, scheduled, chat, onboarding>>

Init ==
  /\ endpoint = "none"
  /\ request = Undefined
  /\ repeated = FALSE
  /\ status = 0
  /\ error = ""
  /\ records = <<>>
  /\ normalized = <<>>
  /\ response = Undefined
  /\ method = "none"
  /\ source = Undefined
  /\ transactions = <<>>
  /\ insights = Null
  /\ ACCESS_TOKEN = Null
  /\ pending = {}
  /\ exchanged = FALSE
  /\ inflight = {}
  /\ scheduled = {}
  /\ chatHistory = <<>>
  /\ question = <<>>
  /\ asking = 0
  /\ onboardingStep = 1
  /\ showOnboarding = TRUE
  /\ showConnectionPopup = FALSE
  /\ completed = FALSE

(* ----------------------- the backend, any client ---------------------- *)

Served(route, input, res) ==
  /\ endpoint' = route
  /\ request' = input
  /\ status' = res.status
  /\ error' = res.error
  /\ records' = res.records
  /\ normalized' = res.normalized
  /\ response' = res.insights

\* The handler of /api/insights runs on body.transactions and responds;
\* it leaves the records of an upload alone.
ServeInsights(body) ==
  Served("insights", body, InsightsHandler(body) @@ [records |-> records])

\* The handler of /api/upload-csv runs on the uploaded file and responds.
ServeUploadCsv(file) ==
  Served("upload-csv", file,
         UploadCsvHandler(file) @@ [normalized |-> <<>>, insights |-> Undefined])

\* No token is stored and no handler awaits anything.
Quiet == ACCESS_TOKEN = Null /\ pending = {}

\* The bodies posted to /api/insights.  While the server is quiet: a base
\* batch followed by up to MaxExtra records, the malformed batches, and
\* the values that are no array.  Otherwise the base batches and null.
PostedBodies ==
  IF Quiet
  THEN {Arr(b \o x) : b \in BaseBatches, x \in SeqsUpTo(PostedRecords, MaxExtra)}
       \cup {Arr(b) : b \in MalformedBatches}
       \cup {Undefined, Null, Num(Scale), Str(Cafe), EmptyMapping}
  ELSE {Arr(b) : b \in BaseBatches} \cup {Null}

\* The files uploaded: all of them while the server is quiet.
UploadedFiles ==
  IF Quiet THEN CsvFiles \cup {Undefined}
  ELSE {Arr(<<>>), Arr(<<<<Cell("Amount", Str(DollarAmount))>>>>)}

\* A client posts to /api/insights.  The handler is synchronous: it runs
\* to its response between any two steps of the handlers that await.
PostInsights ==
  /\ endpoint = "none"
  /\ \E body \in PostedBodies : ServeInsights(body)
  /\ repeated' = FALSE
  /\ UNCHANGED client
  /\ UNCHANGED <<tokenSide, page>>

\* A client posts the request it was just answered once more.
RepostInsights ==
  /\ endpoint = "insights"
  /\ ServeInsights(request)
  /\ repeated' = TRUE
  /\ UNCHANGED client
  /\ UNCHANGED <<tokenSide, page>>

\* A client uploads a file (Undefined: a request without a file part).
UploadCsv ==
  /\ endpoint = "none"
  /\ \E file \in UploadedFiles : ServeUploadCsv(file)
  /\ repeated' = FALSE
  /\ UNCHANGED client
  /\ UNCHANGED <<tokenSide, page>>

\* The handler has returned: its locals are gone.
Return ==
  /\ endpoint # "none"
  /\ method = "none"
  /\ endpoint' = "none"
  /\ request' = Undefined
  /\ repeated' = FALSE
  /\ status' = 0
  /\ error' = ""
  /\ records' = <<>>
  /\ normalized' = <<>>
  /\ response' = Undefined
  /\ UNCHANGED client
  /\ UNCHANGED <<tokenSide, page>>

(* ----------------------- the application's flows ---------------------- *)

\* AppComponent.computeInsights(), run to its end: this.transactions is
\* posted and the insights of the response are stored.
ComputeInsightsCall(list, res) ==
  /\ transactions' = list
  /\ Served("insights", PostedTransactions(list), res)
  /\ insights' = res.insights
  /\ repeated' = FALSE

\* this.transactions = ...; await this.computeInsights()
StoreAndCompute(list, uploaded) ==
  ComputeInsightsCall(list, InsightsHandler(PostedTransactions(list))
                            @@ [records |-> uploaded])

\* AppComponent.onCsvSelected with a file, run to its end: the upload, the
\* store of data.transactions, computeInsights().
CsvSelected(file, uploaded) ==
  /\ method' = "onCsvSelected"
  /\ source' = file
  /\ StoreAndCompute(uploaded, uploaded)

OnCsvSelected ==
  /\ method = "none"
  /\ endpoint = "none"
  /\ Quiet
  /\ \E file \in CsvFiles : CsvSelected(file, UploadCsvHandler(file).records)
  /\ UNCHANGED <<tokenSide, page>>

\* txData.transactions || [] : what /api/plaid/transactions answered, up
\* to two of the aggregator's records with a token stored and an error
\* without.
FetchedLists == IF Truthy(ACCESS_TOKEN) THEN SeqsUpTo(AggregatorRecords, 2) ELSE {<<>>}

\* AppComponent.refreshData on the transactions the aggregator returned,
\* run to its end.
RefreshData ==
  /\ method = "none"
  /\ endpoint = "none"
  /\ pending = {}
  /\ \E list \in FetchedLists :
       /\ method' = "refreshData"
       /\ source' = Arr(list)
       /\ StoreAndCompute(MapAggregatorRecords(list), <<>>)
  /\ UNCHANGED <<tokenSide, page>>

\* The page is loaded anew: the component's fields take their initial
\* values, and the server is idle.
Reload ==
  /\ method # "none"
  /\ method' = "none"
  /\ source' = Undefined
  /\ transactions' = <<>>
  /\ insights' = Null
  /\ endpoint' = "none"
  /\ request' = Undefined
  /\ repeated' = FALSE
  /\ status' = 0
  /\ error' = ""
  /\ records' = <<>>
  /\ normalized' = <<>>
  /\ response' = Undefined
  /\ UNCHANGED <<tokenSide, page>>

(* ------------- the token, the aggregator and the chat model ----------- *)

\* The routes that need the stored token.
TokenRoutes == {"accounts", "transactions"}

\* res.json(...) or res.status(code).json({ error }) of a route that
\* neither normalizes nor computes.
Answer(route, code, message) ==
  /\ Served(route, Undefined,
            [status |-> code, error |-> message, records |-> <<>>,
             normalized |-> <<>>, insights |-> Undefined])
  /\ repeated' = FALSE

\* The handler's await: the call is out and the event loop is free.
Await(route) ==
  /\ route \notin pending
  /\ pending' = pending \cup {route}
  /\ UNCHANGED answer

\* The awaited promise settles, and the handler goes on to its response.
Resume(route) ==
  /\ route \in pending
  /\ pending' = pending \ {route}

\* exchange_public_token without a public_token in the body.
ExchangeRefused ==
  /\ endpoint = "none"
  /\ Answer("exchange", 400, "public_token is required")
  /\ UNCHANGED <<client, page, tokenSide>>

\* exchange_public_token: await plaidClient.itemPublicTokenExchange(...)
ExchangeCall ==
  /\ endpoint = "none"
  /\ Await("exchange")
  /\ UNCHANGED <<client, page, ACCESS_TOKEN, exchanged>>

\* The exchange succeeded: ACCESS_TOKEN = response.data.access_token.
ExchangeDone ==
  /\ endpoint = "none"
  /\ Resume("exchange")
  /\ \E token \in {Str(<<"a", "1">>), Str(<<"a", "2">>)} : ACCESS_TOKEN' = token
  /\ exchanged' = TRUE
  /\ Answer("exchange", 200, "")
  /\ UNCHANGED <<client, page>>

\* The catch, were it to forget the token: ACCESS_TOKEN = null.
ExchangeFailedForgetting ==
  /\ endpoint = "none"
  /\ Resume("exchange")
  /\ Answer("exchange", 500, "Failed to exchange public token")
  /\ ACCESS_TOKEN' = Null
  /\ UNCHANGED <<client, page, exchanged>>

\* The exchange threw: the catch answers.
ExchangeFailed ==
  /\ endpoint = "none"
  /\ Resume("exchange")
  /\ Answer("exchange", 500, "Failed to exchange public token")
  /\ UNCHANGED <<client, page, ACCESS_TOKEN, exchanged>>

\* if (ACCESS_TOKEN === undefined)
NoTokenDefined(token) == token = Undefined

\* if (!ACCESS_TOKEN)
NoToken(token) == ~Truthy(token)

\* /api/plaid/accounts or /api/plaid/transactions without a stored token.
TokenRefused ==
  /\ endpoint = "none"
  /\ NoToken(ACCESS_TOKEN)
  /\ \E route \in TokenRoutes : Answer(route, 400, "No access token")
  /\ UNCHANGED <<client, page, tokenSide>>

\* ... with one: await plaidClient.accountsBalanceGet / transactionsGet.
TokenCall ==
  /\ endpoint = "none"
  /\ ~NoToken(ACCESS_TOKEN)
  /\ \E route \in TokenRoutes : Await(route)
  /\ UNCHANGED <<client, page, ACCESS_TOKEN, exchanged>>

\* The aggregator answered: res.json(response.data).
TokenDone ==
  /\ endpoint = "none"
  /\ \E route \in TokenRoutes : Resume(route) /\ Answer(route, 200, "")
  /\ UNCHANGED <<client, page, ACCESS_TOKEN, exchanged>>

\* The aggregator call threw: the catch answers.
TokenFailed ==
  /\ endpoint = "none"
  /\ \/ Resume("accounts") /\ Answer("accounts", 500, "Failed to fetch accounts")
     \/ Resume("transactions")
          /\ Answer("transactions", 500, "Failed to fetch transactions")
  /\ UNCHANGED <<client, page, ACCESS_TOKEN, exchanged>>

\* /api/chat without a question.
ChatRefused ==
  /\ endpoint = "none"
  /\ Answer("chat", 400, "question is required")
  /\ UNCHANGED <<client, page, tokenSide>>

\* /api/chat: await ...chat.completions.create(...)
ChatCall ==
  /\ endpoint = "none"
  /\ Await("chat")
  /\ UNCHANGED <<client, page, ACCESS_TOKEN, exchanged>>

\* The completion arrived: res.json({ answer }).
ChatDone ==
  /\ endpoint = "none"
  /\ Resume("chat")
  /\ Answer("chat", 200, "")
  /\ UNCHANGED <<client, page, ACCESS_TOKEN, exchanged>>

\* The completion threw: the catch answers.
ChatFailed ==
  /\ endpoint = "none"
  /\ Resume("chat")
  /\ Answer("chat", 500, "Failed to get chat response")
  /\ UNCHANGED <<client, page, ACCESS_TOKEN, exchanged>>

Next ==
  \/ PostInsights
  \/ RepostInsights
  \/ UploadCsv
  \/ Return
  \/ OnCsvSelected
  \/ RefreshData
  \/ Reload
  \/ ExchangeRefused
  \/ ExchangeCall
  \/ ExchangeDone
  \/ ExchangeFailed
  \/ TokenRefused
  \/ TokenCall
  \/ TokenDone
  \/ TokenFailed
  \/ ChatRefused
  \/ ChatCall
  \/ ChatDone
  \/ ChatFailed

Spec == Init /\ [][Next]_vars

(* ------------- the component with its requests under way -------------- *)

\* this.transactions = list; await this.computeInsights(): the list is
\* stored and posted in one turn of the event loop, and the response of
\* /api/insights is on its way.  retry: the first delayed refresh posted
\* it, whose continuation looks at the list when the response is in.
StoreAndPost(name, list, retry) ==
  /\ Cardinality(inflight) < MaxInFlight
  /\ method' = name
  /\ transactions' = list
  /\ inflight' = inflight \cup
       {[insights |-> InsightsHandler(PostedTransactions(list)).insights,
         retry |-> retry]}

\* onSuccess of the bank link: the exchange is posted and, whatever the
\* backend answered, the popup is closed and a refresh is set for later.
OnSuccess ==
  /\ \E ok \in BOOLEAN :
       /\ ACCESS_TOKEN' = IF ok THEN Str(<<"a", "1">>) ELSE ACCESS_TOKEN
       /\ exchanged' = (exchanged \/ ok)
  /\ method' = "onSuccess"
  /\ showConnectionPopup' = FALSE
  /\ scheduled' = scheduled \cup {"first"}
  /\ UNCHANGED <<answer, pending, source, transactions, insights, inflight, chat,
                 onboardingStep, showOnboarding, completed>>

\* refreshData, from its two fetches to the call of computeInsights: run
\* by the user, or by a timer of onSuccess.  The aggregator's list is at
\* most one record here.
RefreshStore ==
  /\ \E origin \in scheduled \cup {"user"} :
       /\ scheduled' = scheduled \ {origin}
       /\ \E list \in {l \in FetchedLists : Len(l) <= 1} :
            StoreAndPost("refreshData", MapAggregatorRecords(list), origin = "first")
  /\ UNCHANGED <<answer, tokenSide, source, insights, chat, onboarding>>

\* onCsvSelected, from the upload's response to the call of
\* computeInsights.
CsvStore ==
  /\ \E file \in {Arr(<<>>), Arr(<<<<Cell("Amount", Str(DollarAmount))>>>>)} :
       StoreAndPost("onCsvSelected", UploadCsvHandler(file).records, FALSE)
  /\ UNCHANGED <<answer, tokenSide, source, insights, scheduled, chat, onboarding>>

\* computeInsights after its await: a response is in, whichever of those
\* under way, and this.insights = data.insights.  The continuation of the
\* first delayed refresh then sets a second one if the list is empty.
InsightsArrive ==
  /\ \E r \in inflight :
       /\ inflight' = inflight \ {r}
       /\ insights' = r.insights
       /\ scheduled' = IF r.retry /\ Len(transactions) = 0
                       THEN scheduled \cup {"second"} ELSE scheduled
  /\ method' = "computeInsights"
  /\ UNCHANGED <<answer, tokenSide, source, transactions, chat, onboarding>>

FlowNext ==
  \/ OnSuccess
  \/ RefreshStore
  \/ CsvStore
  \/ InsightsArrive

FlowSpec == Init /\ [][FlowNext]_vars

(* ------------------- the chat and the onboarding ---------------------- *)

\* String.prototype.trim, with the space for white space.
RECURSIVE Trim(_)
Trim(cs) ==
  IF cs # <<>> /\ cs[1] = " " THEN Trim(Tail(cs))
  ELSE IF cs # <<>> /\ cs[Len(cs)] = " " THEN Trim(SubSeq(cs, 1, Len(cs) - 1))
  ELSE cs

\* 'No response'
NoResponse == <<"N", "o", " ", "r", "e", "s", "p", "o", "n", "s", "e">>

\* 'Sorry, I encountered an error. Please try again.'
Apology ==
  <<"S", "o", "r", "r", "y", ",", " ", "I", " ", "e", "n", "c", "o", "u", "n", "t",
    "e", "r", "e", "d", " ", "a", "n", " ", "e", "r", "r", "o", "r", ".", " ", "P",
    "l", "e", "a", "s", "e", " ", "t", "r", "y", " ", "a", "g", "a", "i", "n", ".">>

\* The user edits the question ([(ngModel)]): empty, blank, or with text.
Input ==
  /\ \E text \in {<<>>, <<" ", " ">>, <<"h", "i">>, <<" ", "h", "i", " ">>} :
       question' = text
  /\ method' = "input"
  /\ UNCHANGED <<answer, tokenSide, source, transactions, insights, inflight,
                 scheduled, chatHistory, asking, onboarding>>

\* ask(), up to its await; onEnterKey calls it under the same condition.
Ask ==
  /\ Len(SelectSeq(chatHistory, LAMBDA e : e.type = "user")) < MaxAsks
  /\ method' = "ask"
  /\ IF Trim(question) = <<>>
     THEN UNCHANGED chat
     ELSE /\ chatHistory' = Append(chatHistory, [type |-> "user", message |-> question])
          /\ asking' = asking + 1
          /\ UNCHANGED question
  /\ UNCHANGED <<answer, tokenSide, source, transactions, insights, inflight,
                 scheduled, onboarding>>

\* ask() after its await: the response of /api/chat is in, with an answer
\* (200) or with an error member and no answer (500).
AnswerArrives ==
  /\ asking > 0
  /\ \E data \in {Str(<<"o", "k">>), Undefined} :
       chatHistory' = Append(chatHistory,
                             [type |-> "ai", message |-> Or(data, Str(NoResponse)).s])
  /\ question' = <<>>
  /\ asking' = asking - 1
  /\ method' = "ask"
  /\ UNCHANGED <<answer, tokenSide, source, transactions, insights, inflight,
                 scheduled, onboarding>>

\* The fetch or the parsing of its response threw: the catch of ask().
AskFails ==
  /\ asking > 0
  /\ chatHistory' = Append(chatHistory, [type |-> "ai", message |-> Apology])
  /\ asking' = asking - 1
  /\ method' = "ask"
  /\ UNCHANGED <<answer, tokenSide, source, transactions, insights, inflight,
                 scheduled, question, onboarding>>

totalOnboardingSteps == 3

\* completeOnboarding()
CompleteOnboarding ==
  /\ method' = "completeOnboarding"
  /\ showOnboarding' = FALSE
  /\ showConnectionPopup' = TRUE
  /\ completed' = TRUE
  /\ UNCHANGED <<answer, tokenSide, source, transactions, insights, inflight,
                 scheduled, chat, onboardingStep>>

\* nextOnboardingStep()
NextOnboardingStep ==
  /\ method' = "nextOnboardingStep"
  /\ IF onboardingStep < totalOnboardingSteps
     THEN /\ onboardingStep' = onboardingStep + 1
          /\ UNCHANGED <<showOnboarding, showConnectionPopup, completed>>
     ELSE /\ showOnboarding' = FALSE
          /\ showConnectionPopup' = TRUE
          /\ completed' = TRUE
          /\ UNCHANGED onboardingStep
  /\ UNCHANGED <<answer, tokenSide, source, transactions, insights, inflight,
                 scheduled, chat>>

\* if (this.onboardingStep >= 1) this.onboardingStep--
PreviousOnboardingStepFromOne ==
  /\ method' = "previousOnboardingStep"
  /\ onboardingStep' = IF onboardingStep >= 1 THEN onboardingStep - 1 ELSE onboardingStep
  /\ UNCHANGED <<answer, tokenSide, source, transactions, insights, inflight,
                 scheduled, chat, showOnboarding, showConnectionPopup, completed>>

\* previousOnboardingStep()
PreviousOnboardingStep ==
  /\ method' = "previousOnboardingStep"
  /\ onboardingStep' = IF onboardingStep > 1 THEN onboardingStep - 1 ELSE onboardingStep
  /\ UNCHANGED <<answer, tokenSide, source, transactions, insights, inflight,
                 scheduled, chat, showOnboarding, showConnectionPopup, completed>>

\* skipOnboarding()
SkipOnboarding ==
  /\ method' = "skipOnboarding"
  /\ showOnboarding' = FALSE
  /\ completed' = TRUE
  /\ UNCHANGED <<answer, tokenSide, source, transactions, insights, inflight,
                 scheduled, chat, onboardingStep, showConnectionPopup>>

\* resetOnboarding()
ResetOnboarding ==
  /\ method' = "resetOnboarding"
  /\ showOnboarding' = TRUE
  /\ onboardingStep' = 1
  /\ completed' = FALSE
  /\ UNCHANGED <<answer, tokenSide, source, transactions, insights, inflight,
                 scheduled, chat, showConnectionPopup>>

UiNext ==
  \/ Input
  \/ Ask
  \/ AnswerArrives
  \/ AskFails
  \/ NextOnboardingStep
  \/ PreviousOnboardingStep
  \/ CompleteOnboarding
  \/ SkipOnboarding
  \/ ResetOnboarding

UiSpec == Init /\ [][UiNext]_vars

(* ======================= the specification's claims =================== *)

(* What the claims speak of, defined apart from the code's computation.   *)

AbsInt(n) == IF n < 0 THEN 0 - n ELSE n

RECURSIVE SumOf(_)
SumOf(f) ==
  IF DOMAIN f = {} THEN 0
  ELSE LET i == CHOOSE j \in DOMAIN f : TRUE
       IN f[i] + SumOf([j \in DOMAIN f \ {i} |-> f[j]])

\* A canonical transaction: a number for amount, one non-empty label.
Canonical(batch) ==
  \A i \in 1..Len(batch) :
    /\ IsNum(batch[i].amount)
    /\ IsStr(batch[i].category)
    /\ batch[i].category.s # <<>>

TotalMagnitude(batch) ==
  SumOf([i \in 1..Len(batch) |-> AbsInt(batch[i].amount.n)])

Carrying(batch, label) == {i \in 1..Len(batch) : batch[i].category.s = label}

CategoryMagnitude(batch, label) ==
  SumOf([i \in Carrying(batch, label) |-> AbsInt(batch[i].amount.n)])

SpendingLabels(batch) ==
  {batch[i].category.s : i \in {j \in 1..Len(batch) : batch[j].amount.n # 0}}

Answered == endpoint = "insights" /\ status = 200

Uploaded == endpoint = "upload-csv" /\ status = 200

\* C1: for every batch of canonical transactions, totalThisMonth is the sum
\* of the amounts' absolute values, every category total reported is the
\* sum of the absolute values of the amounts carrying that category, and
\* (when no more than five categories spend) every spending category is
\* reported.
C1_TotalsAreSums ==
  (Answered /\ Canonical(normalized)) =>
    /\ response.totalThisMonth = Num(TotalMagnitude(normalized))
    /\ \A k \in 1..Len(response.topCategories) :
         response.topCategories[k].total
           = Num(CategoryMagnitude(normalized, response.topCategories[k].name))
    /\ Cardinality(SpendingLabels(normalized)) <= TopN =>
         \A label \in SpendingLabels(normalized) :
           \E k \in 1..Len(response.topCategories) :
             response.topCategories[k].name = label

NotBelow(a, b) == IsNum(a) /\ IsNum(b) /\ a.n >= b.n

\* C2: for every batch, topCategories has at most five entries and their
\* totals are numbers that never increase along the list.
C2_AtMostFiveNonIncreasing ==
  Answered =>
    /\ Len(response.topCategories) <= TopN
    /\ \A i \in 1..Len(response.topCategories) :
         \A j \in (i + 1)..Len(response.topCategories) :
           NotBelow(response.topCategories[i].total,
                    response.topCategories[j].total)

Negated(batch, i) == [batch EXCEPT ![i].amount = Num(0 - batch[i].amount.n)]

\* C3: negating the amount of any one transaction of a batch leaves the
\* insights of the batch unchanged.
C3_SignInvariant ==
  Answered =>
    \A i \in 1..Len(request.s) :
      (IsMapping(request.s[i]) /\ IsNum(request.s[i].amount)) =>
        InsightsHandler(Arr(Negated(request.s, i))).insights = response

\* C3's case: the scenario's batch of expenses with negative amounts was
\* answered with 165 and TRAVEL 100, FOOD_AND_DRINK 65.
C3_Witness ==
  /\ Answered
  /\ request = Arr(ScenarioBatch)
  /\ response = [totalThisMonth |-> Num(165 * Scale),
                 topCategories |->
                   <<[name |-> TRAVEL, total |-> Num(100 * Scale)],
                     [name |-> FOOD_AND_DRINK, total |-> Num(65 * Scale)]>>]

\* C4: an empty batch is answered with totalThisMonth 0 and an empty
\* topCategories.
C4_EmptyBatch ==
  (Answered /\ request = Arr(<<>>)) =>
    response = [totalThisMonth |-> Num(0), topCategories |-> <<>>]

\* C4's case: an empty batch was posted and answered.
C4_Witness ==
  /\ Answered
  /\ request = Arr(<<>>)
  /\ normalized = <<>>
  /\ response.topCategories = <<>>

WellFormed(t) ==
  /\ IsNum(t.amount)
  /\ IsStr(t.category)
  /\ t.category.s # <<>>

\* C5: every normalized transaction has a finite number for amount and a
\* non-empty string for category, among the records of an upload and in the
\* normalized array of /api/insights.
C5_NormalizedWellFormed ==
  /\ Uploaded => \A i \in 1..Len(records) : WellFormed(records[i])
  /\ Answered => \A i \in 1..Len(normalized) : WellFormed(normalized[i])

(* The rows an upload read, with the records it answered: of a direct    *)
(* upload, or of the upload onCsvSelected made.                           *)
UploadedRows ==
  IF method = "onCsvSelected" THEN source.s
  ELSE IF Uploaded THEN request.s
  ELSE <<>>

AmountAliases == {"amount", "Amount", "DEBIT", "CREDIT"}

AmountColumns(row) == {i \in 1..Len(row) : row[i].key \in AmountAliases}

HasDigit(cs) == \E i \in 1..Len(cs) : cs[i] \in Digits

\* No amount column of the row holds a digit: nothing to parse.
Unparseable(row) == \A i \in AmountColumns(row) : ~HasDigit(row[i].value.s)

Spends(t) == t.amount # Num(0)

BothCategories(t) ==
  /\ IsStr(t.pfcPrimary) /\ t.pfcPrimary.s # <<>>
  /\ \/ IsStr(t.category) /\ t.category.s # <<>>
     \/ IsArr(t.category) /\ t.category.s # <<>>

\* C7: a record with both a primary and a legacy category is normalized to
\* the primary, by refreshData and by /api/insights alike.
C7_PrimaryTakesPrecedence ==
  /\ (Answered /\ method = "none") =>
       \A i \in 1..Len(request.s) :
         (IsMapping(request.s[i]) /\ BothCategories(request.s[i])) =>
           normalized[i].category = request.s[i].pfcPrimary
  /\ method = "refreshData" =>
       \A i \in 1..Len(source.s) :
         BothCategories(source.s[i]) =>
           transactions[i].category = source.s[i].pfcPrimary

\* The category computeInsights files a spending transaction under: the
\* names of the insights of the transaction alone.
FiledUnder(t) ==
  LET top == ComputeInsights(<<t>>).topCategories
  IN {top[k].name : k \in 1..Len(top)}

\* A list whose first element is a label.
LabelList(v) == IsArr(v) /\ v.s # <<>> /\ IsStr(v.s[1]) /\ v.s[1].s # <<>>

NoCategoryColumn(row) ==
  \A i \in 1..Len(row) : row[i].key \notin {"category", "Category"}

\* C8: a transaction whose category is a list is filed under the list's
\* first element, and a record without a category is given "Other": by
\* computeInsights, by the upload, and by refreshData for a record without
\* a primary.
C8_FirstOfListElseOther ==
  /\ Answered =>
       \A i \in 1..Len(normalized) :
         /\ (LabelList(normalized[i].category)
               /\ IsNum(normalized[i].amount) /\ Spends(normalized[i]))
              => FiledUnder(normalized[i]) = {normalized[i].category.s[1].s}
         /\ (method = "none" /\ IsMapping(request.s[i])
               /\ request.s[i].category = Undefined
               /\ request.s[i].pfcPrimary = Undefined)
              => normalized[i].category = Str(Other)
  /\ \A i \in 1..Len(UploadedRows) :
       NoCategoryColumn(UploadedRows[i]) => records[i].category = Str(Other)
  /\ method = "refreshData" =>
       \A i \in 1..Len(source.s) :
         source.s[i].pfcPrimary = Undefined =>
           /\ LabelList(source.s[i].category) =>
                transactions[i].category = source.s[i].category.s[1]
           /\ source.s[i].category \in {Undefined, Null} =>
                transactions[i].category = Str(Other)

\* C8's case: one record with the category list FOOD_AND_DRINK,
\* RESTAURANTS and no primary was posted, and FOOD_AND_DRINK is the one
\* category answered.
C8_Witness ==
  /\ Answered
  /\ method = "none"
  /\ Len(request.s) = 1
  /\ IsMapping(request.s[1])
  /\ request.s[1].category = Arr(<<Str(FOOD_AND_DRINK), Str(RESTAURANTS)>>)
  /\ request.s[1].pfcPrimary = Undefined
  /\ Len(response.topCategories) = 1
  /\ response.topCategories[1].name = FOOD_AND_DRINK

(* Decimal numbers, read off the characters.                              *)

Unsigned(cs) == IF cs # <<>> /\ cs[1] = "-" THEN Tail(cs) ELSE cs

Points(cs) == {i \in 1..Len(cs) : cs[i] = "."}

\* An optional leading minus, then digits with at most one point among
\* them, one digit at least.
IsDecimal(cs) ==
  /\ \A i \in 1..Len(Unsigned(cs)) : Unsigned(cs)[i] \in Digits \cup {"."}
  /\ Cardinality(Points(cs)) <= 1
  /\ HasDigit(cs)

PointAt(cs) == IF Points(cs) = {} THEN Len(cs) + 1 ELSE CHOOSE i \in Points(cs) : TRUE

PlaceValue(cs, i) ==
  IF cs[i] \notin Digits THEN 0
  ELSE IF i < PointAt(cs) THEN DigitVal(cs[i]) * Scale * Pow10(PointAt(cs) - 1 - i)
  ELSE (DigitVal(cs[i]) * Scale) \div Pow10(i - PointAt(cs))

\* The number a decimal denotes, in units of 1/Scale.
Denoted(cs) ==
  LET sum == SumOf([i \in 1..Len(cs) |-> PlaceValue(cs, i)])
  IN IF cs[1] = "-" THEN 0 - sum ELSE sum

NotMinus(c) == c # "-"

InAmountAlphabet(c) == c \in Digits \cup {".", "-"}

\* The cleaning the sentence describes: digits, points and a leading minus
\* stay; a minus behind the first kept character goes.
LeadingMinusOnly(cs) ==
  LET kept == SelectSeq(cs, InAmountAlphabet)
  IN IF kept = <<>> THEN kept ELSE <<kept[1]>> \o SelectSeq(Tail(kept), NotMinus)

\* The cleaning of the code: every minus stays.
EveryMinus(cs) == SelectSeq(cs, InAmountAlphabet)

\* The value of the longest leading part that is a decimal; 0 without one.
LeadingDecimal(cs) ==
  LET ends == {k \in 1..Len(cs) : IsDecimal(SubSeq(cs, 1, k))}
  IN IF ends = {} THEN 0
     ELSE Denoted(SubSeq(cs, 1, CHOOSE k \in ends : \A j \in ends : j <= k))

OneAmountColumn(row) == Cardinality(AmountColumns(row)) = 1

AmountText(row) == row[CHOOSE i \in AmountColumns(row) : TRUE].value.s

\* C9 as stated: the amount is the number denoted by the digits, the point
\* and the leading minus of the amount string, a minus elsewhere removed.
C9_LeadingMinusKept ==
  \A i \in 1..Len(UploadedRows) :
    (OneAmountColumn(UploadedRows[i])
       /\ IsDecimal(LeadingMinusOnly(AmountText(UploadedRows[i]))))
      => records[i].amount = Num(Denoted(LeadingMinusOnly(AmountText(UploadedRows[i]))))

\* C9, amended: every character but digits, points and minus signs is
\* removed, every minus sign kept wherever it stands, and the amount is the
\* value of the longest leading part of what is kept that is a decimal
\* number, 0 when there is none.
C9_EveryMinusKept ==
  \A i \in 1..Len(UploadedRows) :
    OneAmountColumn(UploadedRows[i])
      => records[i].amount = Num(LeadingDecimal(EveryMinus(AmountText(UploadedRows[i]))))

\* C9's case: a row with the amount "$1,234.56" was uploaded and its
\* record has the amount 1234.56.
C9_Witness ==
  /\ Uploaded
  /\ Len(request.s) = 1
  /\ Field(request.s[1], "Amount") = Str(DollarAmount)
  /\ records[1].amount = Num((123456 * Scale) \div 100)

C11_NonArrayRejected ==
  (endpoint = "insights" /\ (IsMapping(request) \/ request.k # "arr")) =>
    /\ status = 400
    /\ error = "transactions[] required"
    /\ normalized = <<>>
    /\ response = Undefined

\* C11's case: a mapping was posted as the transactions value and refused.
C11_Witness ==
  /\ endpoint = "insights"
  /\ request = EmptyMapping
  /\ status = 400
  /\ response = Undefined

\* C12: normalization fails exactly for a record that is no mapping: a
\* posted array is answered with an error if and only if one of its
\* elements is no mapping, and an uploaded file, whose rows are mappings,
\* is never answered with one.
C12_FailsExactlyForNonMappings ==
  /\ (endpoint = "insights" /\ ~IsMapping(request) /\ request.k = "arr") =>
       (status # 200 <=> \E i \in 1..Len(request.s) : ~IsMapping(request.s[i]))
  /\ (endpoint = "upload-csv" /\ request # Undefined) => status = 200

NotADate == <<"s", "o", "o", "n">>
PastDate == <<"1", "9", "9", "9", "-", "1", "2", "-", "3", "1">>
FutureDate == <<"2", "9", "9", "9", "-", "0", "1", "-", "0", "1">>

\* Pairs of dates: missing, unparseable, of a past month, of the future.
DatePairs == {<<Undefined, Str(NotADate)>>, <<Str(PastDate), Str(FutureDate)>>}

\* The batch with other dates and nothing else changed: the records at
\* odd places dated pair[1], those at even places pair[2].
Redated(batch, pair) ==
  [i \in 1..Len(batch) |->
     IF IsMapping(batch[i])
     THEN [batch[i] EXCEPT !.date = pair[1 + (i % 2)], !.datetime = Undefined,
                           !.authorized_date = Undefined]
     ELSE batch[i]]

NumericAmounts(batch) == \A i \in 1..Len(batch) : IsNum(batch[i].amount)

Ordinary(batch) ==
  /\ Canonical(batch)
  /\ \A i \in 1..Len(batch) :
       batch[i].category.s \notin {<<"c", "o", "n", "s", "t", "r", "u", "c", "t", "o", "r">>,
                                  <<"_", "_", "p", "r", "o", "t", "o", "_", "_">>}

Least(a, b) == IF a < b THEN a ELSE b

Names(top) == {top[k].name : k \in 1..Len(top)}

\* What computeInsights is to return for a batch, whatever the order among
\* equal totals: the sum of the magnitudes, and the spending categories
\* with their sums, the largest first, five at most.
IsRanking(res, batch) ==
  /\ res.totalThisMonth = Num(TotalMagnitude(batch))
  /\ Len(res.topCategories) = Least(5, Cardinality(SpendingLabels(batch)))
  /\ Cardinality(Names(res.topCategories)) = Len(res.topCategories)
  /\ \A k \in 1..Len(res.topCategories) :
       /\ res.topCategories[k].name \in SpendingLabels(batch)
       /\ res.topCategories[k].total
            = Num(CategoryMagnitude(batch, res.topCategories[k].name))
       /\ \A j \in (k + 1)..Len(res.topCategories) :
            NotBelow(res.topCategories[k].total, res.topCategories[j].total)
       /\ \A label \in SpendingLabels(batch) \ Names(res.topCategories) :
            CategoryMagnitude(batch, label) <= res.topCategories[k].total.n

\* C14: whatever the other requests have done and are doing (a token
\* stored or not, handlers awaiting the aggregator or the chat model,
\* batches answered before), the insights answered to a request are those
\* of its own batch.
C14_RequestsIndependent ==
  Answered =>
    /\ response = InsightsHandler(request).insights
    /\ Ordinary(normalized) => IsRanking(response, normalized)

\* C14's case: the scenario's batch was answered while a token was stored
\* and the handlers of three other routes awaited their calls.
C14_Witness ==
  /\ Answered
  /\ ACCESS_TOKEN # Null
  /\ pending = {"exchange", "transactions", "chat"}
  /\ request = Arr(ScenarioBatch)
  /\ response.totalThisMonth = Num(165 * Scale)

\* C20: as long as no exchange of a public token has succeeded, no handler
\* of /api/plaid/accounts or /api/plaid/transactions is awaiting the
\* aggregator, and every answer of these routes is 400 'No access token'.
C20_NoTokenNoCall ==
  ~exchanged =>
    /\ pending \cap {"accounts", "transactions"} = {}
    /\ endpoint \in {"accounts", "transactions"} =>
         (status = 400 /\ error = "No access token")

\* C20's case: with an exchange still in flight and none done, a request
\* for the transactions was refused.
C20_Witness ==
  /\ ~exchanged
  /\ "exchange" \in pending
  /\ endpoint = "transactions"
  /\ status = 400
  /\ error = "No access token"

\* The place in the batch where a category first spends.
FirstSeen(batch, label) ==
  CHOOSE i \in Carrying(batch, label) :
    /\ batch[i].amount.n # 0
    /\ \A j \in Carrying(batch, label) : batch[j].amount.n # 0 => i <= j

\* C15: of two categories reported with equal totals, the one that the
\* batch spends on first comes first, whatever the labels are.
C15_TiesInEncounterOrder ==
  (Answered /\ Canonical(normalized)) =>
    \A i \in 1..Len(response.topCategories) :
      \A j \in (i + 1)..Len(response.topCategories) :
        (/\ IsNum(response.topCategories[i].total)
         /\ response.topCategories[i].total = response.topCategories[j].total
         /\ {response.topCategories[i].name, response.topCategories[j].name}
              \subseteq SpendingLabels(normalized))
          => FirstSeen(normalized, response.topCategories[i].name)
               < FirstSeen(normalized, response.topCategories[j].name)

\* C16: of a batch that spends on more than five categories exactly five
\* are reported, and no category left out has a larger sum than one
\* reported.
C16_TruncationKeepsLargest ==
  (Answered /\ Canonical(normalized)
     /\ Cardinality(SpendingLabels(normalized)) > 5) =>
    /\ Len(response.topCategories) = 5
    /\ \A label \in SpendingLabels(normalized) \ Names(response.topCategories) :
         \A k \in 1..Len(response.topCategories) :
           NotBelow(response.topCategories[k].total,
                    Num(CategoryMagnitude(normalized, label)))

AliasOrder == <<"amount", "Amount", "DEBIT", "CREDIT">>

HasColumn(row, key) == \E c \in 1..Len(row) : row[c].key = key

CellOf(row, key) == row[CHOOSE c \in 1..Len(row) : row[c].key = key].value.s

\* The first alias, in the order of the list, that satisfies Taken.
FirstAlias(row, Taken(_, _)) ==
  LET taken == {a \in 1..Len(AliasOrder) : Taken(row, AliasOrder[a])}
  IN IF taken = {} THEN 0 ELSE CHOOSE a \in taken : \A b \in taken : a <= b

NonEmptyColumn(row, key) == HasColumn(row, key) /\ CellOf(row, key) # <<>>

\* The amount read off the alias taken; without one, off the default "0".
AmountOfAlias(row, a) ==
  IF a = 0 THEN 0 ELSE LeadingDecimal(EveryMinus(CellOf(row, AliasOrder[a])))

\* C17 as stated: the amount is read off the first alias that is a key of
\* the row, also when its cell is empty or does not parse.
C17_FirstPresentAlias ==
  \A i \in 1..Len(UploadedRows) :
    records[i].amount
      = Num(AmountOfAlias(UploadedRows[i], FirstAlias(UploadedRows[i], HasColumn)))

\* C17, amended: the amount is read off the first alias, in the order
\* amount, Amount, DEBIT, CREDIT, whose cell is not empty; an alias that is
\* absent or empty is passed over, one that does not parse gives 0, and so
\* does a row without any non-empty alias.
C17_FirstNonEmptyAlias ==
  \A i \in 1..Len(UploadedRows) :
    records[i].amount
      = Num(AmountOfAlias(UploadedRows[i], FirstAlias(UploadedRows[i], NonEmptyColumn)))

\* C17's case: a row with an empty amount cell and 7 under DEBIT was
\* uploaded, and its record has the amount 7.
C17_Witness ==
  /\ Uploaded
  /\ Len(request.s) = 1
  /\ Field(request.s[1], "amount") = Str(<<>>)
  /\ Field(request.s[1], "Amount") = Undefined
  /\ Field(request.s[1], "DEBIT") = Str(Seven)
  /\ records[1].amount = Num(7 * Scale)

RecognisedColumns ==
  {"date", "Date", "TRANSACTION_DATE", "description", "Description", "NAME",
   "Merchant", "amount", "Amount", "DEBIT", "CREDIT", "category", "Category"}

Unrecognised(row) == \A c \in 1..Len(row) : row[c].key \notin RecognisedColumns

Degraded(t) ==
  /\ t.amount = Num(0)
  /\ t.category = Str(Other)
  /\ t.name = Str(<<>>)

\* C18: a record with none of the recognised keys becomes a transaction
\* of amount 0, category "Other" and empty name, among the records of an
\* upload, in the normalized array of /api/insights and in the list
\* refreshData stores, and its batch is answered.
C18_UnknownRecordDegrades ==
  /\ \A i \in 1..Len(UploadedRows) :
       Unrecognised(UploadedRows[i]) => Degraded(records[i])
  /\ (endpoint = "insights" /\ method = "none" /\ ~IsMapping(request)
        /\ request.k = "arr") =>
       \A i \in 1..Len(request.s) :
         request.s[i] = EmptyMapping => (status = 200 /\ Degraded(normalized[i]))
  /\ method = "refreshData" =>
       \A i \in 1..Len(source.s) :
         source.s[i] = EmptyMapping => Degraded(transactions[i])

SumOfTotals(top) == SumOf([k \in 1..Len(top) |-> top[k].total.n])

\* C19: the totals reported are numbers whose sum never exceeds
\* totalThisMonth, and equals it for a batch that spends on five
\* categories at most.
C19_TotalIsSumOfCategories ==
  Answered =>
    /\ \A k \in 1..Len(response.topCategories) :
         IsNum(response.topCategories[k].total)
    /\ SumOfTotals(response.topCategories) <= response.totalThisMonth.n
    /\ (Canonical(normalized) /\ Cardinality(SpendingLabels(normalized)) <= 5) =>
         SumOfTotals(response.topCategories) = response.totalThisMonth.n

\* C22: with no response of /api/insights on its way to the component,
\* and one received, the insights shown are those of the transactions
\* list the component holds.
C22_InsightsOfCurrentTransactions ==
  (inflight = {} /\ method = "computeInsights") =>
    insights = InsightsHandler(PostedTransactions(transactions)).insights

\* The entries of one type in the chat history.
Entries(type) == Len(SelectSeq(chatHistory, LAMBDA e : e.type = type))

\* C23: the history never holds more 'ai' entries than 'user' entries,
\* holds as many of each when no ask() awaits its response, and every
\* 'ai' entry is the answer of the model or the apology.
C23_OneAnswerPerAsk ==
  /\ Entries("ai") <= Entries("user")
  /\ asking = 0 => Entries("ai") = Entries("user")
  /\ \A i \in 1..Len(chatHistory) :
       chatHistory[i].type = "ai" => chatHistory[i].message \in {<<"o", "k">>, Apology}

\* C24: the step stays within 1..totalOnboardingSteps; previous at step
\* 1 changes nothing of the onboarding, and next at the last step leaves
\* the step, hides the onboarding and shows the connection popup.
C24_StepStaysInRange ==
  /\ [](onboardingStep \in 1..totalOnboardingSteps)
  /\ [][/\ (method' = "previousOnboardingStep" /\ onboardingStep = 1) =>
            UNCHANGED onboarding
        /\ (method' = "nextOnboardingStep" /\ onboardingStep = totalOnboardingSteps) =>
            /\ onboardingStep' = onboardingStep
            /\ ~showOnboarding'
            /\ showConnectionPopup']_vars

\* C24's case: next was run at the last step; the onboarding is hidden,
\* the connection popup is shown and the completion is stored.
C24_Witness ==
  /\ method = "nextOnboardingStep"
  /\ onboardingStep = totalOnboardingSteps
  /\ ~showOnboarding
  /\ showConnectionPopup
  /\ completed

\* C21: a step changes the stored token only by answering 200 to an
\* exchange that was awaiting the aggregator; an exchange answered 400 or
\* 500 leaves it as it was, and a token once stored is never null again.
C21_TokenChangesOnExchangeOnly ==
  [][/\ ACCESS_TOKEN' # ACCESS_TOKEN =>
          /\ endpoint' = "exchange"
          /\ status' = 200
          /\ "exchange" \in pending
          /\ "exchange" \notin pending'
     /\ (endpoint = "none" /\ endpoint' = "exchange" /\ status' \in {400, 500}) =>
          ACCESS_TOKEN' = ACCESS_TOKEN
     /\ ACCESS_TOKEN # Null => ACCESS_TOKEN' # Null]_vars

\* C21's case: with a token stored, a later exchange failed at the
\* aggregator, and the token is still there.
C21_Witness ==
  /\ exchanged
  /\ endpoint = "exchange"
  /\ status = 500
  /\ Truthy(ACCESS_TOKEN)

====
